---- MODULE Spec2Model ----
(***************************************************************************)
(* RenderDash: the data-quality report (validate_data_types), the column   *)
(* coercion (preprocess_data) and the compressed snapshot writer           *)
(* (convert_excel_to_json) with the snapshot reader of the load path.      *)
(*                                                                         *)
(* A table is a sequence of columns [label, dtype, vals]; every column of  *)
(* a table has the same number of values (a pandas DataFrame).             *)
(* A cell value is one of                                                  *)
(*   Null                    None / NaN / NaT                              *)
(*   Num(n)                  a number                                      *)
(*   Ts(t)                   an instant (pandas Timestamp), t in seconds   *)
(*   Bool(b)                 a boolean                                     *)
(*   Str(s, dt)              a text of characters s; dt is what the        *)
(*                           permissive date parser (pd.to_datetime) makes *)
(*                           of it: an instant, or Null when it rejects it *)
(***************************************************************************)
EXTENDS Integers, Sequences, FiniteSets, TLC

VARIABLES
    df,         \* the table held by the session (load_data's result)
    analysis,   \* validate_data_types' result, NotRun before the call
    coerced,    \* preprocess_data's result, NotRun before the call
    warnings,   \* the st.warning messages preprocess_data has shown
    snapshot,   \* the file at json_path
    pc,         \* convert_excel_to_json's position
    buffer,     \* json_str, the serialized document being written
    ret,        \* convert_excel_to_json's return value
    decoded,    \* the table the load path rebuilt from the snapshot
    excel_path, \* convert_excel_to_json's argument
    source      \* the file at excel_path

vars == <<df, analysis, coerced, warnings, snapshot, pc, buffer, ret, decoded,
          excel_path, source>>

-----------------------------------------------------------------------------
(* Bounds of the model *)

\* most rows of a single-column table
MaxRows == 5
\* most columns of a table of several columns
MaxCols == 2
\* most rows of a table of several columns
MaxWideRows == 1
\* pieces the snapshot's bytes are written in
NChunks == 2

-----------------------------------------------------------------------------
(* Values *)

Null == [k |-> "null"]
Num(n) == [k |-> "num", n |-> n]
Ts(t) == [k |-> "ts", t |-> t]
Bool(b) == [k |-> "bool", b |-> b]
Str(s, dt) == [k |-> "str", s |-> s, dt |-> dt]

Column(label, dtype, vals) == [label |-> label, dtype |-> dtype, vals |-> vals]

NotRun == [k |-> "notrun"]
Raised == [k |-> "raised"]

IsNull(v) == v.k = "null"

Digits == {"0", "1", "2", "3", "4", "5", "6", "7", "8", "9"}

\* the sequences over S of length n
SeqsOfLen(S, n) == [1..n -> S]

\* the sequences over S of length at most n
SeqsUpTo(S, n) == UNION {SeqsOfLen(S, k) : k \in 0..n}

RECURSIVE SumSeq(_)
SumSeq(s) == IF s = <<>> THEN 0 ELSE Head(s) + SumSeq(Tail(s))

Range(s) == {s[i] : i \in DOMAIN s}

\* Series.dropna(): the non-null values, in order
DropNa(vals) == SelectSeq(vals, LAMBDA v : ~IsNull(v))

\* Series.head(3).tolist()
Head3(vals) == SubSeq(vals, 1, IF Len(vals) < 3 THEN Len(vals) ELSE 3)

\* variant: Series.count(), the non-null values
NotnaCount(vals) == Len(DropNa(vals))

\* Series.isna().sum()
IsnaSum(vals) == Len(SelectSeq(vals, LAMBDA v : IsNull(v)))

\* Series.nunique(): the distinct non-null values
Nunique(vals) == Cardinality(Range(DropNa(vals)))

-----------------------------------------------------------------------------
(* validate_data_types *)

None == "None"
OK == "OK"
WARNING == "WARNING"

ConvDate == "Coluna pode ser convertida para DATA"
ConvNum == "Coluna pode ser convertida para NUMERO"
Outliers == "Possiveis outliers detectados"
FutureDates == "Datas futuras detectadas"
NullsFound == "valores nulos encontrados"
NoProblem == "Nenhum problema encontrado"

\* one entry of 'problemas': the message, and the count an f-string put in it
Issue(msg, n) == [msg |-> msg, n |-> n]

\* analysis[column]['problemas'].append(...); analysis[column]['status'] = WARNING
AddProblem(info, issue) ==
    [info EXCEPT !.problemas = Append(@, issue), !.status = WARNING]

\* the first occurrence of character c removed: str.replace(c, '', 1)
RemoveFirst(s, c) ==
    IF \E i \in DOMAIN s : s[i] = c
    THEN LET i == CHOOSE j \in DOMAIN s : s[j] = c /\ \A h \in 1..(j - 1) : s[h] # c
         IN  SubSeq(s, 1, i - 1) \o SubSeq(s, i + 1, Len(s))
    ELSE s

\* str.isdigit(): not empty, and every character a digit
IsDigit(s) == Len(s) > 0 /\ \A i \in DOMAIN s : s[i] \in Digits

\* str(x) of a cell of an object column
StrOf(v) ==
    CASE v.k = "str" -> v.s
      [] v.k = "bool" -> IF v.b THEN <<"T", "r", "u", "e">> ELSE <<"F", "a", "l", "s", "e">>
      [] OTHER -> <<"?">>

\* str(x).replace('.','',1).replace('-','',1).isdigit()
DigitTest(v) == IsDigit(RemoveFirst(RemoveFirst(StrOf(v), "."), "-"))

\* what pd.to_datetime makes of one value: an instant, or Null when it
\* rejects the value (a text's outcome is the parser's, carried by the text)
ToDatetimeValue(v) ==
    CASE v.k = "str" -> v.dt
      [] v.k = "ts" -> v
      [] OTHER -> Null

\* pd.to_datetime(col_data, errors='raise') returns instead of raising:
\* every non-null value parses
ToDatetimeSucceeds(vals) ==
    \A i \in DOMAIN vals : IsNull(vals[i]) \/ ~IsNull(ToDatetimeValue(vals[i]))

\* sum(<digit test> for x in col_data.dropna())
NumericCount(vals) == Len(SelectSeq(DropNa(vals), DigitTest))

\* variant: count / total >= 0.8
FractionAtLeast(count, total) == 10 * count >= 8 * total

\* count / total > 0.8
FractionExceeds(count, total) == 10 * count > 8 * total

\* variant: the object branch without the date attempt
InferObjectNoDateAttempt(col, info) ==
    IF col.dtype # "object" THEN info
    ELSE IF Len(DropNa(col.vals)) = 0 THEN Raised
    ELSE IF FractionExceeds(NumericCount(col.vals), Len(DropNa(col.vals)))
    THEN AddProblem([info EXCEPT !.sugerido_tipo = "NUMERO"], Issue(ConvNum, 0))
    ELSE [info EXCEPT !.sugerido_tipo = "TEXTO"]

\* lines 70-85: the object branch; Raised when the division's denominator is
\* zero (the division stands in an except block, so nothing catches it)
InferObject(col, info) ==
    IF col.dtype # "object" THEN info
    ELSE IF ToDatetimeSucceeds(col.vals)
    THEN AddProblem([info EXCEPT !.sugerido_tipo = "DATA"], Issue(ConvDate, 0))
    ELSE IF Len(DropNa(col.vals)) = 0 THEN Raised
    ELSE IF FractionExceeds(NumericCount(col.vals), Len(DropNa(col.vals)))
    THEN AddProblem([info EXCEPT !.sugerido_tipo = "NUMERO"], Issue(ConvNum, 0))
    ELSE [info EXCEPT !.sugerido_tipo = "TEXTO"]

Abs(x) == IF x < 0 THEN -x ELSE x

\* the numbers of the non-null values
Numbers(vals) == [i \in DOMAIN DropNa(vals) |-> DropNa(vals)[i].n]

\* n^2 (n-1) times the sample variance of xs, n = Len(xs):
\* the sum of (n x - sum)^2
ScaledSqDev(xs) ==
    LET n == Len(xs)
        s == SumSeq(xs)
    IN  SumSeq([i \in DOMAIN xs |-> (n * xs[i] - s) * (n * xs[i] - s)])

\* Series.std() > num / Len(xs), in exact arithmetic. std() of fewer than two
\* values is NaN and compares False; std() >= 0 exceeds any negative bound;
\* otherwise both sides are squared and scaled by n^2 (n-1).
StdExceeds(xs, num) ==
    LET n == Len(xs)
    IN  /\ n >= 2
        /\ \/ num < 0
           \/ ScaledSqDev(xs) > (n - 1) * num * num

\* col_data.dropna().std() > col_data.dropna().mean() * 3
OutlierTest(vals) ==
    LET xs == Numbers(vals)
    IN  StdExceeds(xs, 3 * SumSeq(xs))

\* col_data.max() > pd.Timestamp.now(); max() of no instants is NaT and
\* compares False
HasFutureDate(vals, now) ==
    \E i \in DOMAIN vals : ~IsNull(vals[i]) /\ vals[i].t > now

\* lines 88-100: the numeric and the date branch
SpecificValidations(col, info, now) ==
    IF col.dtype \in {"int64", "float64"}
    THEN LET i1 == [info EXCEPT !.sugerido_tipo = "NUMERO"]
         IN  IF OutlierTest(col.vals) THEN AddProblem(i1, Issue(Outliers, 0)) ELSE i1
    ELSE IF col.dtype = "datetime64[ns]"
    THEN LET i1 == [info EXCEPT !.sugerido_tipo = "DATA"]
         IN  IF HasFutureDate(col.vals, now) THEN AddProblem(i1, Issue(FutureDates, 0)) ELSE i1
    ELSE info

\* variant: the null check without the status assignment
NullCheckKeepsStatus(info) ==
    IF info.valores_nulos > 0
    THEN [info EXCEPT !.problemas = Append(@, Issue(NullsFound, info.valores_nulos))]
    ELSE info

\* lines 103-105
NullCheck(info) ==
    IF info.valores_nulos > 0
    THEN AddProblem(info, Issue(NullsFound, info.valores_nulos))
    ELSE info

\* lines 108-109
NoProblems(info) ==
    IF info.problemas = <<>>
    THEN [info EXCEPT !.problemas = Append(@, Issue(NoProblem, 0))]
    ELSE info

\* lines 59-67
NewInfo(col) ==
    [k |-> "info",
     atual_tipo |-> col.dtype,
     sugerido_tipo |-> None,
     problemas |-> <<>>,
     exemplos |-> Head3(col.vals),
     valores_nulos |-> IsnaSum(col.vals),
     valores_unicos |-> Nunique(col.vals),
     status |-> OK]

\* the body of the loop, for one column: its entry of the report, or Raised
ColumnInfo(col, now) ==
    LET i1 == InferObject(col, NewInfo(col))
    IN  IF i1.k = "raised" THEN Raised
        ELSE NoProblems(NullCheck(SpecificValidations(col, i1, now)))

\* analysis[column] = info on a dict that keeps insertion order: a key
\* already present keeps its place and takes the new value
DictSet(d, key, val) ==
    IF \E i \in DOMAIN d : d[i].column = key
    THEN [i \in DOMAIN d |-> IF d[i].column = key THEN [column |-> key, info |-> val] ELSE d[i]]
    ELSE Append(d, [column |-> key, info |-> val])

RECURSIVE ValidateFrom(_, _, _, _)
\* the loop over df.columns from position i on, acc the dict built so far
ValidateFrom(t, i, acc, now) ==
    IF i > Len(t) THEN [k |-> "report", items |-> acc]
    ELSE LET info == ColumnInfo(t[i], now)
         IN  IF info.k = "raised" THEN Raised
             ELSE ValidateFrom(t, i + 1, DictSet(acc, t[i].label, info), now)

\* variant: the loop over df.columns[1:]
ValidateSkipsFirst(t, now) == ValidateFrom(t, 2, <<>>, now)

\* validate_data_types(df): the returned dict's items in order, or Raised
ValidateDataTypes(t, now) == ValidateFrom(t, 1, <<>>, now)

-----------------------------------------------------------------------------
(* preprocess_data *)

date_columns == <<"DATA_TOA", "DATA", "INICIO", "FIM", "DESLOCAMENTO">>

NumericRole(col, dtype) == [col |-> col, dtype |-> dtype]

\* app.py's widths, in the dict's order
numeric_columns ==
    <<NumericRole("COP REVERTEU", "float64"), NumericRole("LATIDUDE", "float64"),
      NumericRole("LONGITUDE", "float64"), NumericRole("COD", "int64"),
      NumericRole("TIPO OS", "int64"), NumericRole("VALOR TECNICO", "float64"),
      NumericRole("VALOR EMPRESA", "float64"), NumericRole("PONTO", "float64")>>

categorical_columns ==
    <<"BASE", "SERVICO", "HABILIDADE DE TRABALHO", "STATUS ATIVIDADE", "PACOTE", "CLIENTE",
      "CIDADES", "NODE", "TECNICO", "LOGIN", "SUPERVISOR", "COD STATUS">>

\* col in df.columns
HasColumn(t, label) == \E i \in DOMAIN t : t[i].label = label

\* df[col]
GetColumn(t, label) == t[CHOOSE i \in DOMAIN t : t[i].label = label]

\* df[col] = ... for a label the table has: the column keeps its place
SetColumn(t, label, dtype, vals) ==
    [i \in DOMAIN t |->
        IF t[i].label = label THEN [label |-> label, dtype |-> dtype, vals |-> vals] ELSE t[i]]

\* pd.to_datetime(df[col], errors='coerce'): values it rejects become NaT
ToDatetimeCoerce(vals) == [i \in DOMAIN vals |-> ToDatetimeValue(vals[i])]

DigitChars == <<"0", "1", "2", "3", "4", "5", "6", "7", "8", "9">>

DigitVal(c) == (CHOOSE d \in DOMAIN DigitChars : DigitChars[d] = c) - 1

RECURSIVE DecimalOf(_)
\* the number a sequence of digits writes
DecimalOf(s) ==
    IF s = <<>> THEN 0 ELSE 10 * DecimalOf(SubSeq(s, 1, Len(s) - 1)) + DigitVal(s[Len(s)])

\* the number an unsigned text writes, Null when it writes none: digits, with
\* at most one '.' among them. (Every text of the model has only zeros after
\* its '.', so the number is the one its digits before the '.' write.)
ParseUnsigned(s) ==
    LET dots == {i \in DOMAIN s : s[i] = "."}
        whole == IF dots = {} THEN s ELSE SubSeq(s, 1, (CHOOSE i \in dots : TRUE) - 1)
        frac == IF dots = {} THEN <<>> ELSE SubSeq(s, (CHOOSE i \in dots : TRUE) + 1, Len(s))
    IN  IF /\ Cardinality(dots) <= 1
           /\ Len(whole) + Len(frac) > 0
           /\ \A i \in DOMAIN whole : whole[i] \in Digits
           /\ \A i \in DOMAIN frac : frac[i] = "0"
        THEN Num(DecimalOf(whole))
        ELSE Null

\* the number a text writes, Null when it writes none: an optional leading
\* '-', then an unsigned number
ParseNumber(s) ==
    IF Len(s) > 0 /\ s[1] = "-"
    THEN LET u == ParseUnsigned(Tail(s))
         IN  IF u.k = "num" THEN Num(-u.n) ELSE Null
    ELSE ParseUnsigned(s)

\* what pd.to_numeric(errors='coerce') makes of one value
ToNumericValue(v) ==
    CASE v.k = "num" -> v
      [] v.k = "str" -> ParseNumber(v.s)
      [] v.k = "bool" -> Num(IF v.b THEN 1 ELSE 0)
      [] OTHER -> Null

\* pd.to_numeric(df[col], errors='coerce')
ToNumericCoerce(vals) == [i \in DOMAIN vals |-> ToNumericValue(vals[i])]

\* Series.astype(dtype) of a numeric series: an integer width cannot hold
\* NaN and raises; the model's numbers are whole, so a cast keeps them
Astype(vals, dtype) ==
    IF dtype = "int64" /\ \E i \in DOMAIN vals : IsNull(vals[i])
    THEN Raised
    ELSE [k |-> "series", vals |-> vals]

Warning(col, what) == [col |-> col, what |-> what]

Result(t, w) == [table |-> t, warnings |-> w]

\* lines 123-127 for one date column
ConvertDate(r, col) ==
    IF HasColumn(r.table, col)
    THEN Result(SetColumn(r.table, col, "datetime64[ns]",
                          ToDatetimeCoerce(GetColumn(r.table, col).vals)),
                r.warnings)
    ELSE r

\* lines 142-146 for one numeric column: a cast that raises leaves the
\* column as it was and shows a warning
ConvertNumeric(r, role) ==
    IF HasColumn(r.table, role.col)
    THEN LET cast == Astype(ToNumericCoerce(GetColumn(r.table, role.col).vals), role.dtype)
         IN  IF cast.k = "raised"
             THEN Result(r.table, Append(r.warnings, Warning(role.col, role.dtype)))
             ELSE Result(SetColumn(r.table, role.col, role.dtype, cast.vals), r.warnings)
    ELSE r

\* lines 154-157 for one categorical column
WarnMissing(r, col) ==
    IF HasColumn(r.table, col) /\ IsnaSum(GetColumn(r.table, col).vals) > 0
    THEN Result(r.table, Append(r.warnings, Warning(col, "nulos")))
    ELSE r

RECURSIVE ConvertDates(_, _)
\* for col in date_columns, from position i on
ConvertDates(r, i) ==
    IF i > Len(date_columns) THEN r
    ELSE ConvertDates(ConvertDate(r, date_columns[i]), i + 1)

RECURSIVE ConvertNumerics(_, _)
\* for col, dtype in numeric_columns.items(), from position i on
ConvertNumerics(r, i) ==
    IF i > Len(numeric_columns) THEN r
    ELSE ConvertNumerics(ConvertNumeric(r, numeric_columns[i]), i + 1)

RECURSIVE WarnAllMissing(_, _)
\* for col in categorical_columns, from position i on
WarnAllMissing(r, i) ==
    IF i > Len(categorical_columns) THEN r
    ELSE WarnAllMissing(WarnMissing(r, categorical_columns[i]), i + 1)

\* lines 120-157: the conversions, made in place on the table the local name
\* df refers to: that table after them, and the warnings shown
Conversions(t) ==
    WarnAllMissing(ConvertNumerics(ConvertDates(Result(t, <<>>), 1), 1), 1)

\* the tables a call works with: the caller's, at "arg", and (once made) its
\* copy, at "copy"; ref is where the local name df points
Frame(t) == [arg |-> t, copy |-> <<>>, ref |-> "arg"]

\* variant: no copy is made, the local name keeps pointing at the caller's table
DfAlias(h) == h

\* line 118: df = df.copy()
DfCopy(h) == [h EXCEPT !.copy = h[h.ref], !.ref = "copy"]

\* preprocess_data(df): the returned table, the warnings shown, and the
\* caller's table as the call leaves it
PreprocessData(t) ==
    LET h == DfCopy(Frame(t))
        r == Conversions(h[h.ref])
    IN  [table |-> r.table,
         warnings |-> r.warnings,
         input |-> IF h.ref = "arg" THEN r.table ELSE h.arg]

-----------------------------------------------------------------------------
(* convert_excel_to_json *)

\* dtype_dict: the labels read as 'category'
dtype_dict == Range(categorical_columns)

\* the labels of numeric_columns, every one 'float32' in convert_excel.py
float32_columns == {numeric_columns[i].col : i \in DOMAIN numeric_columns}

\* pd.read_excel(excel_path, dtype=dtype_dict) of a sheet holding table t
ReadExcel(t) ==
    [i \in DOMAIN t |->
        IF t[i].label \in dtype_dict THEN [t[i] EXCEPT !.dtype = "category"] ELSE t[i]]

\* significant bits of a float32
Mantissa32 == 24

RECURSIVE Pow2(_)
Pow2(e) == IF e = 0 THEN 1 ELSE 2 * Pow2(e - 1)

RECURSIVE BitLength(_)
\* the number of bits of n >= 0
BitLength(n) == IF n = 0 THEN 0 ELSE 1 + BitLength(n \div 2)

\* the float32 nearest to the whole number n, ties to the even mantissa
Round32(n) ==
    LET a == Abs(n)
        q == IF BitLength(a) > Mantissa32 THEN Pow2(BitLength(a) - Mantissa32) ELSE 1
        down == (a \div q) * q
        r == a - down
        up == IF 2 * r > q \/ (2 * r = q /\ (a \div q) % 2 = 1) THEN down + q ELSE down
    IN  IF n < 0 THEN -up ELSE up

\* Series.astype('float32')
AstypeFloat32(vals) ==
    [i \in DOMAIN vals |-> IF vals[i].k = "num" THEN Num(Round32(vals[i].n)) ELSE vals[i]]

\* digits of '%Y%m%d%H%M%S'
TimestampWidth == 14

RECURSIVE ZeroPadded(_, _)
\* n >= 0 written in w digits
ZeroPadded(n, w) ==
    IF w = 0 THEN <<>> ELSE Append(ZeroPadded(n \div 10, w - 1), DigitChars[(n % 10) + 1])

\* Series.dt.strftime('%Y%m%d%H%M%S'): an instant becomes its fixed-width
\* text (which the date parser reads back as that instant), NaT becomes NaN
Strftime(vals) ==
    [i \in DOMAIN vals |->
        IF vals[i].k = "ts"
        THEN Str(ZeroPadded(vals[i].t, TimestampWidth), vals[i])
        ELSE Null]

\* Series.replace('NaT', None): a cell that is the text 'NaT' becomes null
ReplaceNaT(vals) ==
    [i \in DOMAIN vals |->
        IF vals[i].k = "str" /\ vals[i].s = <<"N", "a", "T">> THEN Null ELSE vals[i]]

\* lines 44-49 for one date column: the column ends as texts, dtype object
EncodeDate(t, col) ==
    IF HasColumn(t, col)
    THEN SetColumn(t, col, "object",
                   ReplaceNaT(Strftime(ToDatetimeCoerce(GetColumn(t, col).vals))))
    ELSE t

\* lines 64-65 for one numeric column
EncodeNumeric(t, role) ==
    IF HasColumn(t, role.col)
    THEN SetColumn(t, role.col, "float32",
                   AstypeFloat32(ToNumericCoerce(GetColumn(t, role.col).vals)))
    ELSE t

RECURSIVE EncodeDates(_, _)
\* for col in date_columns, from position i on
EncodeDates(t, i) ==
    IF i > Len(date_columns) THEN t ELSE EncodeDates(EncodeDate(t, date_columns[i]), i + 1)

RECURSIVE EncodeNumerics(_, _)
\* for col, dtype in numeric_columns.items(), from position i on
EncodeNumerics(t, i) ==
    IF i > Len(numeric_columns) THEN t
    ELSE EncodeNumerics(EncodeNumeric(t, numeric_columns[i]), i + 1)

\* lines 39-65: the table convert_excel_to_json serializes
EncodedTable(t) == EncodeNumerics(EncodeDates(ReadExcel(t), 1), 1)

NumRows(t) == IF t = <<>> THEN 0 ELSE Len(t[1].vals)

\* df.values.tolist(): the rows, each the row's cells in column order
ValuesToList(t) == [r \in 1..NumRows(t) |-> [c \in DOMAIN t |-> t[c].vals[r]]]

\* json.dumps with NumpyEncoder can serialize the cell: a Timestamp cell
\* reaches JSONEncoder.default, which raises TypeError
Serializable(v) == v.k # "ts"

\* lines 72-76: data_dict
DataDict(t) ==
    [columns |-> [c \in DOMAIN t |-> t[c].label],
     data |-> ValuesToList(t),
     dtypes |-> [c \in DOMAIN t |-> [column |-> t[c].label, dtype |-> t[c].dtype]]]

\* lines 39-78: json_str, or Raised when json.dumps raises
JsonStr(t) ==
    LET e == EncodedTable(t)
    IN  IF \A c \in DOMAIN e : \A r \in DOMAIN e[c].vals : Serializable(e[c].vals[r])
        THEN [k |-> "json", doc |-> DataDict(e)]
        ELSE Raised

\* a path is the sequence of its characters
Xlsx == <<".", "x", "l", "s", "x">>
JsonGz == <<".", "j", "s", "o", "n", ".", "g", "z">>

\* str.replace(old, new): every occurrence of old, found from the left and
\* not overlapping, becomes new; the comparison is case-sensitive
RECURSIVE StrReplace(_, _, _)
StrReplace(s, old, new) ==
    IF Len(s) < Len(old) THEN s
    ELSE IF SubSeq(s, 1, Len(old)) = old
         THEN new \o StrReplace(SubSeq(s, Len(old) + 1, Len(s)), old, new)
         ELSE <<Head(s)>> \o StrReplace(Tail(s), old, new)

\* line 68: json_path
JsonPath(path) == StrReplace(path, Xlsx, JsonGz)

\* line 102: "data/2025/janeiro_2025.xlsx"
MainPath ==
    <<"d", "a", "t", "a", "/", "2", "0", "2", "5", "/",
      "j", "a", "n", "e", "i", "r", "o", "_", "2", "0", "2", "5">> \o Xlsx

\* line 39: the workbook at excel_path, which read_excel reads as table t
SheetFile(t) == [k |-> "sheet", table |-> t]

\* the file at json_path: not there, a whole gzip stream of a document, or
\* the first 'written' of NChunks pieces of one with no gzip trailer
Complete(doc) == [k |-> "complete", doc |-> doc]
Partial(doc, written) == [k |-> "partial", doc |-> doc, written |-> written]

-----------------------------------------------------------------------------
(* The snapshot reader of the load path *)

\* the dtype recorded for a label
TagOf(doc, label) ==
    doc.dtypes[CHOOSE c \in DOMAIN doc.dtypes : doc.dtypes[c].column = label].dtype

\* the dtype pandas infers for a column rebuilt from JSON values
InferredDtype(vals) ==
    IF \A i \in DOMAIN vals : vals[i].k \in {"num", "null"} THEN "float64"
    ELSE IF \A i \in DOMAIN vals : vals[i].k = "bool" THEN "bool"
    ELSE "object"

\* a fixed-width timestamp text parsed back into an instant; null stays null
ParseTimestamp(v) ==
    IF v.k = "str" /\ Len(v.s) = TimestampWidth /\ IsDigit(v.s)
    THEN Ts(DecimalOf(v.s))
    ELSE Null

\* the type tag replayed on a rebuilt column
ReplayTag(label, tag, vals) ==
    CASE tag = "datetime64[ns]" ->
            Column(label, tag, [i \in DOMAIN vals |-> ParseTimestamp(vals[i])])
      [] tag = "category" -> Column(label, tag, vals)
      [] tag = "float32" -> Column(label, tag, AstypeFloat32(ToNumericCoerce(vals)))
      [] OTHER -> Column(label, InferredDtype(vals), vals)

\* decode: the table rebuilt from a document
Decode(doc) ==
    [c \in DOMAIN doc.columns |->
        ReplayTag(doc.columns[c], TagOf(doc, doc.columns[c]),
                  [r \in DOMAIN doc.data |-> doc.data[r][c]])]

-----------------------------------------------------------------------------
(* The tables given to validate_data_types *)

Dtypes == {"object", "int64", "float64", "float32", "datetime64[ns]", "bool", "category"}

\* texts: a number, a word, a date, a signed decimal; none but the date is
\* accepted by the date parser
TextOne == Str(<<"1">>, Null)
TextWord == Str(<<"x">>, Null)
TextDate == Str(<<"2", "-", "1">>, Ts(1))
TextDecimal == Str(<<"-", "1", ".", "0">>, Null)

\* the values a column of each dtype is drawn from
ColumnVals(dtype) ==
    CASE dtype = "object" -> {Null, TextOne, TextWord, TextDate, TextDecimal}
      [] dtype = "float64" -> {Null, Num(-1), Num(0), Num(2)}
      [] dtype = "int64" -> {Num(-1), Num(0), Num(2)}
      [] dtype = "float32" -> {Null, Num(1)}
      [] dtype = "datetime64[ns]" -> {Null, Ts(1), Ts(3)}
      [] dtype = "bool" -> {Bool(TRUE), Bool(FALSE)}
      [] dtype = "category" -> {Null, TextWord}

\* the values of the columns of a table of several columns
WideVals(dtype) ==
    CASE dtype = "object" -> {Null, TextWord}
      [] dtype = "float64" -> {Null, Num(2)}
      [] dtype = "datetime64[ns]" -> {Null, Ts(3)}

WideDtypes == {"object", "float64", "datetime64[ns]"}

\* the moments pd.Timestamp.now() may return
Nows == {0, 2}

\* the tables of one column
NarrowTables ==
    {<<Column("OBS", d, vs)>> : <<d, vs>> \in
        UNION {{<<d, vs>> : vs \in SeqsUpTo(ColumnVals(d), MaxRows)} : d \in Dtypes}}

WideLabels == {"DATA", "PONTO", "OBS"}

\* the columns of n rows of a table of several columns
WideColumns(n) ==
    UNION {{Column(l, d, vs) : vs \in SeqsOfLen(WideVals(d), n), l \in WideLabels} : d \in WideDtypes}

\* read_excel names no two columns alike
UniqueLabels(t) == \A i, j \in DOMAIN t : t[i].label = t[j].label => i = j

\* the tables of two to MaxCols columns
WideTables ==
    UNION {{t \in SeqsUpTo(WideColumns(n), MaxCols) : Len(t) >= 2 /\ UniqueLabels(t)} :
           n \in 0..MaxWideRows}

DiagnoseTables == NarrowTables \cup WideTables

-----------------------------------------------------------------------------
(* The data-quality tab: load_data, then validate_data_types *)

Absent == [k |-> "absent"]

InitRest ==
    /\ coerced = NotRun
    /\ warnings = <<>>
    /\ snapshot = Absent
    /\ pc = "idle"
    /\ buffer = Null
    /\ ret = Null
    /\ decoded = NotRun
    /\ excel_path = MainPath
    /\ source = SheetFile(df)

Init ==
    /\ df \in DiagnoseTables
    /\ analysis = NotRun
    /\ InitRest

\* data_analysis = validate_data_types(df)
Validate ==
    /\ analysis = NotRun
    /\ \E now \in Nows : analysis' = ValidateDataTypes(df, now)
    /\ UNCHANGED <<df, coerced, warnings, snapshot, pc, buffer, ret, decoded, excel_path, source>>

Next == Validate

Spec == Init /\ [][Next]_vars

-----------------------------------------------------------------------------
(* The sidebar's button: load_data, then preprocess_data *)

RoleLabels == {"DATA", "COD", "PONTO", "BASE", "OBS"}

\* the dtypes a loaded column of each label comes in
RoleDtypes(label) ==
    CASE label = "DATA" -> {"object", "datetime64[ns]"}
      [] label \in {"COD", "PONTO"} -> {"object", "float64", "int64"}
      [] label \in {"BASE", "OBS"} -> {"object"}

\* the values a loaded column of each label and dtype is drawn from
RoleVals(label, dtype) ==
    CASE dtype = "datetime64[ns]" -> {Null, Ts(1)}
      [] dtype = "float64" -> {Null, Num(2)}
      [] dtype = "int64" -> {Num(2)}
      [] dtype = "object" /\ label = "DATA" -> {Null, TextDate, TextWord}
      [] dtype = "object" /\ label \in {"BASE", "OBS"} -> {Null, TextWord}
      [] dtype = "object" /\ label \in {"COD", "PONTO"} -> {Null, TextDecimal, TextWord}

\* the columns of n rows
RoleColumns(n) ==
    UNION {{Column(l, d, vs) : vs \in SeqsOfLen(RoleVals(l, d), n)} :
           <<l, d>> \in {<<l, d>> \in RoleLabels \X Dtypes : d \in RoleDtypes(l)}}

\* the tables of one to MaxCols columns
CoerceTables ==
    UNION {{t \in SeqsUpTo(RoleColumns(n), MaxCols) : Len(t) >= 1 /\ UniqueLabels(t)} :
           n \in 0..MaxWideRows}

InitCoerce ==
    /\ df \in CoerceTables
    /\ analysis = NotRun
    /\ InitRest

\* preprocess_data(df) on the loaded table: df is the loaded table as the
\* call leaves it, coerced the table the call returns
Preprocess ==
    /\ coerced = NotRun
    /\ \E r \in {PreprocessData(df)} :
          /\ coerced' = [k |-> "table", table |-> r.table]
          /\ warnings' = r.warnings
          /\ df' = r.input
    /\ UNCHANGED <<analysis, snapshot, pc, buffer, ret, decoded, excel_path, source>>

NextCoerce == Preprocess

SpecCoerce == InitCoerce /\ [][NextCoerce]_vars

-----------------------------------------------------------------------------
(* The converter script, and the load path reading its snapshot *)

CodecLabels == {"DATA", "PONTO", "BASE", "OBS"}

\* the dtypes a column of each label has in the sheet
SheetDtypes(label) ==
    CASE label = "DATA" -> {"object", "datetime64[ns]"}
      [] label = "PONTO" -> {"object", "float64"}
      [] label = "BASE" -> {"object"}
      [] label = "OBS" -> {"object", "int64", "datetime64[ns]"}

\* the values a column of each label and dtype is drawn from; 16777217 is
\* the least whole number float32 cannot hold
SheetVals(label, dtype) ==
    CASE dtype = "datetime64[ns]" -> {Null, Ts(1)}
      [] dtype = "float64" -> {Null, Num(2), Num(16777217)}
      [] dtype = "int64" -> {Num(2)}
      [] dtype = "object" /\ label = "DATA" -> {Null, TextDate, TextWord}
      [] dtype = "object" /\ label = "PONTO" -> {Null, TextDecimal, TextWord}
      [] dtype = "object" /\ label \in {"BASE", "OBS"} -> {Null, TextWord}

\* the columns of n rows
SheetColumns(n) ==
    UNION {{Column(l, d, vs) : vs \in SeqsOfLen(SheetVals(l, d), n)} :
           <<l, d>> \in {<<l, d>> \in CodecLabels \X Dtypes : d \in SheetDtypes(l)}}

\* the sheets of one to MaxCols columns
Sheets ==
    UNION {{t \in SeqsUpTo(SheetColumns(n), MaxCols) : Len(t) >= 1 /\ UniqueLabels(t)} :
           n \in 0..MaxWideRows}

\* the snapshot an earlier run left at json_path
PreviousDoc == DataDict(<<Column("OBS", "object", <<TextWord>>)>>)

InitCodec ==
    /\ df \in Sheets
    /\ analysis = NotRun
    /\ coerced = NotRun
    /\ warnings = <<>>
    /\ snapshot \in {Absent, Complete(PreviousDoc)}
    /\ pc = "idle"
    /\ buffer = Null
    /\ ret = Null
    /\ decoded = NotRun
    /\ excel_path = MainPath
    /\ source = SheetFile(df)

\* the file at excel_path once the file at json_path is 'file': the same
\* file when the two paths are one
SourceAfter(file) == IF JsonPath(excel_path) = excel_path THEN file ELSE source

\* lines 21-78: read, convert and serialize; json.dumps raising ends the call
\* in the except block before the file is opened
EncodeSerialize ==
    /\ pc = "idle"
    /\ IF JsonStr(df).k = "raised"
       THEN pc' = "done" /\ ret' = Bool(FALSE) /\ buffer' = buffer
       ELSE pc' = "open" /\ ret' = ret /\ buffer' = JsonStr(df).doc
    /\ UNCHANGED <<df, analysis, coerced, warnings, snapshot, decoded, excel_path, source>>

\* line 79: gzip.open(json_path, 'wt') creates the file or truncates it
EncodeOpen ==
    /\ pc = "open"
    /\ snapshot' = Partial(buffer, 0)
    /\ source' = SourceAfter(snapshot')
    /\ pc' = "write"
    /\ UNCHANGED <<df, analysis, coerced, warnings, buffer, ret, decoded, excel_path>>

\* line 79: gzip.open raises (the path cannot be written): the except block
EncodeOpenFails ==
    /\ pc = "open"
    /\ pc' = "done"
    /\ ret' = Bool(FALSE)
    /\ UNCHANGED <<df, analysis, coerced, warnings, snapshot, buffer, decoded, excel_path, source>>

\* line 80: f.write(json_str) gets one more piece onto the disk
EncodeWrite ==
    /\ pc = "write"
    /\ snapshot.written < NChunks
    /\ snapshot' = Partial(buffer, snapshot.written + 1)
    /\ source' = SourceAfter(snapshot')
    /\ UNCHANGED <<df, analysis, coerced, warnings, pc, buffer, ret, decoded, excel_path>>

\* line 80: the write raises (the disk is full): the with block closes the
\* file as it stands and the except block returns False
EncodeWriteFails ==
    /\ pc = "write"
    /\ pc' = "done"
    /\ ret' = Bool(FALSE)
    /\ UNCHANGED <<df, analysis, coerced, warnings, snapshot, buffer, decoded, excel_path, source>>

\* lines 80-95: everything is written, the with block closes the stream and
\* the call returns True
EncodeClose ==
    /\ pc = "write"
    /\ snapshot.written = NChunks
    /\ snapshot' = Complete(buffer)
    /\ source' = SourceAfter(snapshot')
    /\ pc' = "done"
    /\ ret' = Bool(TRUE)
    /\ UNCHANGED <<df, analysis, coerced, warnings, buffer, decoded, excel_path>>

\* the load path reads the file at json_path: a stream that is not whole
\* fails to decompress (CorruptSnapshot)
LoadSnapshot ==
    /\ pc = "done"
    /\ decoded = NotRun
    /\ snapshot.k # "absent"
    /\ decoded' = IF snapshot.k = "complete"
                  THEN [k |-> "table", table |-> Decode(snapshot.doc)]
                  ELSE [k |-> "corrupt"]
    /\ UNCHANGED <<df, analysis, coerced, warnings, snapshot, pc, buffer, ret, excel_path, source>>

NextCodec ==
    \/ EncodeSerialize
    \/ EncodeOpen
    \/ EncodeOpenFails
    \/ EncodeWrite
    \/ EncodeWriteFails
    \/ EncodeClose
    \/ LoadSnapshot

SpecCodec == InitCodec /\ [][NextCodec]_vars

-----------------------------------------------------------------------------
(* The converter called on other workbooks *)

\* workbooks read_excel opens (it tells the format from the file's content):
\* the script's own, an .xls, an upper-case .XLSX, a macro-enabled .xlsm,
\* and an .xlsx inside a directory whose name holds ".xlsx"
Paths ==
    {MainPath,
     <<"j", ".", "x", "l", "s">>,
     <<"j", ".", "X", "L", "S", "X">>,
     <<"j", ".", "x", "l", "s", "m">>,
     <<"d">> \o Xlsx \o <<"/", "j">> \o Xlsx}

InitPath ==
    /\ df \in Sheets
    /\ analysis = NotRun
    /\ coerced = NotRun
    /\ warnings = <<>>
    /\ excel_path \in Paths
    /\ source = SheetFile(df)
    /\ snapshot \in IF JsonPath(excel_path) = excel_path
                     THEN {source}
                     ELSE {Absent, Complete(PreviousDoc)}
    /\ pc = "idle"
    /\ buffer = Null
    /\ ret = Null
    /\ decoded = NotRun

SpecPath == InitPath /\ [][NextCodec]_vars

-----------------------------------------------------------------------------
(* Properties of validate_data_types *)

Reported == analysis.k = "report"

\* the messages of a report entry
Msgs(info) == {info.problemas[i].msg : i \in DOMAIN info.problemas}

\* P(col, info) for every column of df and every entry the report holds for
\* its label, of which there is at least one
ForEveryColumn(P(_, _)) ==
    \A i \in DOMAIN df :
        /\ \E j \in DOMAIN analysis.items : analysis.items[j].column = df[i].label
        /\ \A j \in DOMAIN analysis.items :
              analysis.items[j].column = df[i].label => P(df[i], analysis.items[j].info)

\* the positions of the null values of a column
NullPositions(col) == {i \in DOMAIN col.vals : col.vals[i].k = "null"}

\* the positions of the non-null values of a column
ValuePositions(col) == DOMAIN col.vals \ NullPositions(col)

C2_Holds(col, info) ==
    /\ info.status \in {OK, WARNING}
    /\ info.status = WARNING <=> (Msgs(info) \ {NoProblem} # {})
    /\ info.status = OK <=> info.problemas = <<Issue(NoProblem, 0)>>

\* C2: in every returned report, a column's status is WARNING if and only if
\* its problems hold one that is not the 'no problem found' sentinel, and OK
\* exactly when the sentinel is the only problem.
C2_StatusIffSubstantiveIssue == Reported => ForEveryColumn(C2_Holds)

\* a report with a WARNING entry and an OK entry
C2_Witness ==
    /\ Reported
    /\ \E i, j \in DOMAIN analysis.items :
          /\ analysis.items[i].info.status = WARNING
          /\ analysis.items[j].info.status = OK

C3_Holds(col, info) ==
    LET nulls == Cardinality(NullPositions(col))
    IN  /\ info.valores_nulos = nulls
        /\ (NullsFound \in Msgs(info)) <=> nulls >= 1
        /\ \A i \in DOMAIN info.problemas :
              info.problemas[i].msg = NullsFound => info.problemas[i].n = nulls

\* C3: a column's reported null count is the number of null values in the
\* column, and the 'null values found' problem is listed if and only if that
\* number is at least 1, carrying exactly that number, in every type branch.
C3_NullCountExact == Reported => ForEveryColumn(C3_Holds)

\* a text column with two nulls reported as 2, besides another problem
C3_Witness ==
    /\ Reported
    /\ \E i \in DOMAIN df : \E j \in DOMAIN analysis.items :
          /\ analysis.items[j].column = df[i].label
          /\ df[i].dtype = "object"
          /\ Cardinality(NullPositions(df[i])) = 2
          /\ Issue(NullsFound, 2) \in Range(analysis.items[j].info.problemas)
          /\ ConvNum \in Msgs(analysis.items[j].info)

C6_Holds(col, info) ==
    col.dtype \in {"int64", "float64"} =>
        LET xs == Numbers(col.vals)
            n == Len(xs)
        IN  (Outliers \in Msgs(info)) <=>
                /\ n >= 2
                /\ ScaledSqDev(xs) > (n - 1) * (3 * Abs(SumSeq(xs))) * (3 * Abs(SumSeq(xs)))

\* C6: for a numeric column with at least two non-null values the 'possible
\* outliers' problem is listed if and only if the sample standard deviation
\* exceeds 3 times the absolute value of the mean; with fewer than two
\* non-null values it is never listed.
C6_OutliersByMagnitudeOfMean == Reported => ForEveryColumn(C6_Holds)

\* the fraction of the non-null values passing the digit test exceeds 0.8
DigitFractionAbove(col) ==
    5 * Cardinality({i \in ValuePositions(col) : DigitTest(col.vals[i])})
        > 4 * Cardinality(ValuePositions(col))

\* some non-null value is rejected by the date parser
DateParseFails(col) ==
    \E i \in ValuePositions(col) : ToDatetimeValue(col.vals[i]).k = "null"

C7_Holds(col, info) ==
    col.dtype = "object" =>
        IF DateParseFails(col)
        THEN /\ ConvDate \notin Msgs(info)
             /\ IF DigitFractionAbove(col)
                THEN info.sugerido_tipo = "NUMERO" /\ ConvNum \in Msgs(info)
                ELSE info.sugerido_tipo = "TEXTO" /\ ConvNum \notin Msgs(info)
        ELSE /\ info.sugerido_tipo = "DATA"
             /\ ConvDate \in Msgs(info)
             /\ ConvNum \notin Msgs(info)

\* C7: a text column whose date parse fails is suggested NUMBER, with the
\* 'convertible to number' problem, if and only if more than 0.8 of its
\* non-null values pass the digit test, and TEXT with no problem from this
\* step otherwise; a text column whose date parse succeeds is suggested DATE
\* with the 'convertible to date' problem and is not classified as a number.
C7_NumberAboveFourFifths == Reported => ForEveryColumn(C7_Holds)

\* a text column with exactly four of five non-null values passing the digit
\* test, reported as TEXT
C7_Witness ==
    /\ Reported
    /\ \E i \in DOMAIN df : \E j \in DOMAIN analysis.items :
          /\ analysis.items[j].column = df[i].label
          /\ df[i].dtype = "object"
          /\ Cardinality(ValuePositions(df[i])) = 5
          /\ Cardinality({p \in ValuePositions(df[i]) : DigitTest(df[i].vals[p])}) = 4
          /\ analysis.items[j].info.sugerido_tipo = "TEXTO"

C8_Original(col, info) ==
    Len(col.vals) = 0 =>
        /\ info.valores_nulos = 0
        /\ info.valores_unicos = 0
        /\ info.sugerido_tipo = "UNKNOWN"

\* C8 as stated: the call never raises, and an empty column's entry has
\* zero counts and suggested type UNKNOWN.
C8_EmptyColumnUnknown ==
    analysis.k # "notrun" => Reported /\ ForEveryColumn(C8_Original)

\* the suggested type the branch of a column's dtype gives an empty column
EmptySuggestion(dtype) ==
    CASE dtype \in {"object", "datetime64[ns]"} -> "DATA"
      [] dtype \in {"int64", "float64"} -> "NUMERO"
      [] OTHER -> None

C8_Amended(col, info) ==
    Len(col.vals) = 0 =>
        /\ info.valores_nulos = 0
        /\ info.valores_unicos = 0
        /\ info.exemplos = <<>>
        /\ info.sugerido_tipo = EmptySuggestion(col.dtype)

\* C8, amended: the call never raises, whatever the column's representation
\* or content, and an empty column's entry has zero counts, no examples and
\* the suggested type of its dtype's branch: DATE for a text or date column,
\* NUMBER for an int64 or float64 column, none for any other.
C8_NeverRaisesEmptyByBranch ==
    analysis.k # "notrun" => Reported /\ ForEveryColumn(C8_Amended)

\* a report on an empty text column
C8_Witness ==
    /\ Reported
    /\ \E i \in DOMAIN df : df[i].dtype = "object" /\ df[i].vals = <<>>

\* C10: the report holds exactly one entry per column of the table, in the
\* order of the table's columns, and none for any other label.
C10_OneEntryPerColumnInOrder ==
    Reported =>
        /\ Len(analysis.items) = Len(df)
        /\ \A i \in DOMAIN df : analysis.items[i].column = df[i].label

\* a report on a table of two columns
C10_Witness == Reported /\ Len(df) = 2 /\ Len(analysis.items) = 2

-----------------------------------------------------------------------------
(* Properties of preprocess_data *)

Preprocessed == coerced.k = "table"

DateRoles == Range(date_columns)

NumericRoles == {numeric_columns[i].col : i \in DOMAIN numeric_columns}

\* the value the role of a label parses a raw value to, Null when it cannot
ParsedFor(label, v) ==
    IF label \in DateRoles THEN ToDatetimeValue(v) ELSE ToNumericValue(v)

\* C5: preprocess_data always returns a table, and in every date-role and
\* numeric-role column of it (the int64 roles COD and TIPO OS included) each
\* value is the parsed value of the input value, or null when the value does
\* not parse or the column's conversion fails: never the raw value.
C5_ParsedOrNull ==
    coerced.k # "notrun" =>
        /\ Preprocessed
        /\ Len(coerced.table) = Len(df)
        /\ \A i \in DOMAIN df :
              /\ coerced.table[i].label = df[i].label
              /\ df[i].label \in DateRoles \cup NumericRoles =>
                    \A p \in DOMAIN df[i].vals :
                        LET parsed == ParsedFor(df[i].label, df[i].vals[p])
                        IN  /\ coerced.table[i].vals[p] \in {parsed, Null}
                            /\ parsed = Null => coerced.table[i].vals[p] = Null

\* a call of preprocess_data happens in this step
PreprocessStep == coerced.k = "notrun" /\ coerced'.k = "table"

\* C11: a call of preprocess_data leaves the table it is given as it was, and
\* the table it returns has the input's columns in the input's order with the
\* input's row count, every column whose label is neither a date role nor a
\* numeric role (the categorical roles included) holding exactly the input
\* column's values.
C11_InputKeptAndOthersPassThrough ==
    [][PreprocessStep =>
        /\ df' = df
        /\ Len(coerced'.table) = Len(df)
        /\ \A i \in DOMAIN df :
              /\ coerced'.table[i].label = df[i].label
              /\ Len(coerced'.table[i].vals) = Len(df[i].vals)
              /\ df[i].label \notin DateRoles \cup NumericRoles =>
                    coerced'.table[i] = df[i]]_vars

\* a returned table whose date column was converted beside a categorical
\* column with a value, the loaded table still holding the raw dates
C11_Witness ==
    /\ Preprocessed
    /\ \E i, j \in DOMAIN df :
          /\ df[i].label = "DATA" /\ df[i].dtype = "object"
          /\ coerced.table[i].dtype = "datetime64[ns]"
          /\ coerced.table[i].vals # df[i].vals
          /\ df[j].label = "BASE" /\ Len(df[j].vals) >= 1
          /\ coerced.table[j].vals = df[j].vals

-----------------------------------------------------------------------------
(* Properties of the snapshot *)

\* line 46 alone for one date column: the column as instants
TypeDate(t, col) ==
    IF HasColumn(t, col)
    THEN SetColumn(t, col, "datetime64[ns]", ToDatetimeCoerce(GetColumn(t, col).vals))
    ELSE t

RECURSIVE TypeDates(_, _)
TypeDates(t, i) ==
    IF i > Len(date_columns) THEN t ELSE TypeDates(TypeDate(t, date_columns[i]), i + 1)

\* the typed table of a sheet: categorical columns as categories, date-role
\* columns as instants, numeric-role columns as float32
TypedTable(t) == EncodeNumerics(TypeDates(ReadExcel(t), 1), 1)

Encoded == pc = "done" /\ ret = Bool(TRUE)

\* C1: decoding the snapshot a successful encode wrote gives the typed
\* table's labels in order, its row count and its value in every cell: date
\* cells as instants, null cells as null, float32 cells rounded once.
C1_RoundTrip ==
    (Encoded /\ decoded.k # "notrun") =>
        /\ decoded.k = "table"
        /\ Len(decoded.table) = Len(TypedTable(df))
        /\ \A c \in DOMAIN decoded.table :
              /\ decoded.table[c].label = TypedTable(df)[c].label
              /\ decoded.table[c].vals = TypedTable(df)[c].vals

\* C4: the file at json_path is never a partly written snapshot: it is
\* absent, the previous whole snapshot or the whole new one.
C4_NoPartialSnapshot ==
    \/ snapshot = Absent
    \/ snapshot = Complete(PreviousDoc)
    \/ JsonStr(df).k = "json" /\ snapshot = Complete(JsonStr(df).doc)

\* C9: in a written snapshot every column's recorded tag is the name of its
\* type in the typed table: a date representation for a date-role column, the
\* categorical one for a categorical-role column, float32 for a numeric-role
\* column.
C9_TagsNameTypes ==
    Encoded =>
        /\ snapshot.k = "complete"
        /\ \A c \in DOMAIN snapshot.doc.dtypes :
              LET label == snapshot.doc.dtypes[c].column
                  tag == snapshot.doc.dtypes[c].dtype
              IN  /\ tag = TypedTable(df)[c].dtype
                  /\ label \in Range(date_columns) => tag = "datetime64[ns]"
                  /\ label \in dtype_dict => tag = "category"
                  /\ label \in float32_columns => tag = "float32"

-----------------------------------------------------------------------------
(* Properties of the snapshot's path *)

\* index of the last "." of a path, 0 when it has none
LastDot(path) ==
    IF \E i \in DOMAIN path : path[i] = "."
    THEN CHOOSE i \in DOMAIN path :
            path[i] = "." /\ \A j \in DOMAIN path : path[j] = "." => j <= i
    ELSE 0

\* the path with only its final file suffix replaced by ext
WithSuffix(path, ext) == SubSeq(path, 1, LastDot(path) - 1) \o ext

\* gzip.open(json_path, 'wt') has been reached and has opened the file
SnapshotOpened == pc = "write" \/ Encoded

\* C12: the path the snapshot is written to differs from the source path and
\* is the source path with only its final suffix replaced by ".json.gz", and
\* the source file is as it was before the call at every point of it,
\* whether the call succeeds or fails.
C12_SnapshotPathSparesSource ==
    /\ SnapshotOpened =>
          /\ JsonPath(excel_path) # excel_path
          /\ JsonPath(excel_path) = WithSuffix(excel_path, JsonGz)
    /\ source = SheetFile(df)

====
